---- MODULE Spec2Model ----
(***************************************************************************)
(* Arena-based k-d tree of zschira/kd_tree (src/src/kd_tree.rs) with the   *)
(* Vec<f64> implementation of the Point trait (src/src/lib.rs).            *)
(*                                                                         *)
(* The arena `tree` is a function over 0 .. len-1 (Rust's Vec indices).    *)
(* An Option<Node> is a record with the field is_some.  Coordinates are    *)
(* small naturals.  A distance is carried as its radicand (the sum of the  *)
(* squared differences): f64 sqrt is strictly increasing on the radicands  *)
(* that occur here, so every `<` and `==` between two distances has the    *)
(* same outcome on the radicands.                                          *)
(* A Rust panic (index out of range) is the result "Panic"; it ends the    *)
(* program.                                                                *)
(***************************************************************************)
EXTENDS Integers, Sequences, FiniteSets

\* ---------------------------------------------------------------- bounds
\* Largest number of add_point calls in one run.
MaxPoints == 3
\* Largest n handed to find_n_closest / brute_force.
MaxN == 2

\* Coordinate values of the query points.
Coords == {0, 1, 2}
\* Coordinate values of the points handed to add_point, by axis (from 1).
StoredCoords(axis) == IF axis = 1 THEN {0, 1, 2} ELSE {0, 1}
\* Values of num_dimensions given to the constructor.
Dimensions == {1, 2}
\* Values of capacity given to with_capacity.
Capacities == {0, 1, 2, 3}

\* ---------------------------------------------------------------- values
None == [is_some |-> FALSE]

Node(point, child_type, parent, left_child, right_child, dimension, level) ==
    [is_some |-> TRUE, point |-> point, child_type |-> child_type,
     parent |-> parent, left_child |-> left_child, right_child |-> right_child,
     dimension |-> dimension, level |-> level]

Closest(point, distance) == [point |-> point, distance |-> distance]

\* Vec::len of the arena
VecLen(v) == Cardinality(DOMAIN v)

\* Vec::resize_with(new_len, Default::default): truncates or pads with None
resize_with(v, new_len) ==
    [i \in 0 .. new_len - 1 |-> IF i \in DOMAIN v THEN v[i] ELSE None]

\* ---------------------------------------------------------------- Point
dimensions(p) == Len(p)

\* Ok(radicand) or Err(DimensionError)
distance(a, b) ==
    IF Len(a) # Len(b)
    THEN [ret |-> "DimensionError", val |-> 0]
    ELSE LET RECURSIVE sum(_)
             sum(i) == IF i > Len(a) THEN 0
                       ELSE (a[i] - b[i]) * (a[i] - b[i]) + sum(i + 1)
         IN [ret |-> "Ok", val |-> sum(1)]

\* self[cur_dimension] > other[cur_dimension]; the index panics when out of range
greater_panics(a, b, cur_dimension) ==
    cur_dimension >= Len(a) \/ cur_dimension >= Len(b)

\* A bug that sends equal coordinates to the left
greater_or_equal(a, b, cur_dimension) ==
    a[cur_dimension + 1] >= b[cur_dimension + 1]

greater(a, b, cur_dimension) == a[cur_dimension + 1] > b[cur_dimension + 1]

split_plane_panics(a, cur_dimension) == cur_dimension >= Len(a)

split_plane(a, cur_dimension) ==
    [i \in 1 .. Len(a) |-> IF i = cur_dimension + 1 THEN a[i] ELSE 0]

\* ---------------------------------------------------------------- KdTree
\* KdTree::with_capacity
with_capacity(dims, capacity) ==
    [tree |-> resize_with(<<>>, capacity), num_dimensions |-> dims,
     max_levels |-> 0, last_point |-> 1]

\* the while loop of go_down
RECURSIVE go_down_loop(_, _, _, _, _)
go_down_loop(t, query_point, current_index, index, child_type) ==
    IF current_index \notin DOMAIN t
    THEN [ret |-> "Panic", index |-> index, child_type |-> child_type]
    ELSE IF ~t[current_index].is_some
    THEN [ret |-> "Ok", index |-> index, child_type |-> child_type]
    ELSE LET node == t[current_index] IN
         IF greater_panics(node.point, query_point, node.dimension)
         THEN [ret |-> "Panic", index |-> current_index, child_type |-> child_type]
         ELSE IF greater(node.point, query_point, node.dimension)
         THEN go_down_loop(t, query_point, node.left_child, current_index, "LeftChild")
         ELSE go_down_loop(t, query_point, node.right_child, current_index, "RightChild")

\* KdTree::go_down
go_down(t, query_point, root) ==
    IF root \notin DOMAIN t
    THEN [ret |-> "Panic", index |-> 0, child_type |-> "RootNode"]
    ELSE IF ~t[root].is_some
    THEN [ret |-> "EmptyTree", index |-> 0, child_type |-> "RootNode"]
    ELSE go_down_loop(t, query_point, root, root, "RootNode")

\* A bug that drops the dimension check of add_point
dimension_unchecked(self, query_point) == FALSE

\* "if query_point.dimensions() != self.num_dimensions"
dimension_mismatch(self, query_point) ==
    dimensions(query_point) # self.num_dimensions

\* A bug that writes the new index into the parent's other link
attach_other_side(t, parent_index, child_type, last) ==
    [t EXCEPT ![parent_index] =
        IF child_type = "LeftChild" THEN [@ EXCEPT !.right_child = last]
        ELSE IF child_type = "RightChild" THEN [@ EXCEPT !.left_child = last]
        ELSE @]

\* "match child_type { LeftChild => node.left_child = self.last_point, ... }"
attach(t, parent_index, child_type, last) ==
    [t EXCEPT ![parent_index] =
        IF child_type = "LeftChild" THEN [@ EXCEPT !.left_child = last]
        ELSE IF child_type = "RightChild" THEN [@ EXCEPT !.right_child = last]
        ELSE @]

\* A bug that leaves max_levels at its old value
max_unchanged(a, b) == a

\* usize::max of "self.max_levels = self.max_levels.max(current_level)"
max(a, b) == IF b > a THEN b ELSE a

\* KdTree::add_point: the new KdTree and the returned value
add_point(self, query_point) ==
    LET fail(e) == [self |-> self, ret |-> e] IN
    IF dimension_mismatch(self, query_point) THEN fail("DimensionError")
    ELSE IF 1 \notin DOMAIN self.tree THEN fail("Panic")
    ELSE
    LET place == IF ~self.tree[1].is_some
                 THEN [ret |-> "Ok", index |-> 0, child_type |-> "RootNode"]
                 ELSE go_down(self.tree, query_point, 1)
        parent_index == place.index
        child_type == place.child_type
    IN
    IF place.ret # "Ok" THEN fail(place.ret)
    ELSE IF self.last_point # 1 /\ ~self.tree[parent_index].is_some
    THEN fail("DimensionError")
    ELSE
    LET parent == self.tree[parent_index]
        linked ==
            IF self.last_point = 1 THEN self.tree
            ELSE attach(self.tree, parent_index, child_type, self.last_point)
        current_dimension ==
            IF self.last_point = 1 THEN 0
            ELSE (parent.dimension + 1) % self.num_dimensions
        current_level == IF self.last_point = 1 THEN 0 ELSE parent.level + 1
        new_max == max(self.max_levels, current_level)
        grown == IF self.last_point >= VecLen(linked) - 1
                 THEN resize_with(linked, self.last_point * 2)
                 ELSE linked
    IN
    IF self.last_point \notin DOMAIN grown
    THEN [self |-> [self EXCEPT !.tree = grown, !.max_levels = new_max],
          ret |-> "Panic"]
    ELSE [self |-> [tree |-> [grown EXCEPT ![self.last_point] =
                                Node(query_point, child_type, parent_index,
                                     0, 0, current_dimension, current_level)],
                    num_dimensions |-> self.num_dimensions,
                    max_levels |-> new_max,
                    last_point |-> self.last_point + 1],
          ret |-> "Ok"]

\* ---------------------------------------------------------------- BinaryHeap
\* std::collections::BinaryHeap<Closest<usize, T>>, a max-heap on distance, kept
\* as the sequence of its entries in the order they were pushed.
heap_push(h, e) == Append(h, e)

\* position of the greatest entry (the first pushed of several equal ones)
heap_max_pos(h) ==
    CHOOSE i \in DOMAIN h :
        /\ \A j \in DOMAIN h : h[j].distance <= h[i].distance
        /\ \A j \in 1 .. i - 1 : h[j].distance < h[i].distance

heap_pop(h) ==
    LET m == heap_max_pos(h)
    IN [i \in 1 .. Len(h) - 1 |-> IF i < m THEN h[i] ELSE h[i + 1]]

\* KdTree::get_max_min
get_max_min(bh_closest) ==
    IF bh_closest = <<>>
    THEN [ret |-> "BinaryHeapError", val |-> 0]
    ELSE [ret |-> "Ok", val |-> bh_closest[heap_max_pos(bh_closest)].distance]

\* "if bh_closest.len() < n push, else replace the max when distance is less"
\* (find_n_closest 173-180, brute_force 218-225)
offer(bh_closest, n, index, dist) ==
    IF Len(bh_closest) < n
    THEN [ret |-> "Ok", heap |-> heap_push(bh_closest, Closest(index, dist))]
    ELSE LET mm == get_max_min(bh_closest) IN
         IF mm.ret # "Ok" THEN [ret |-> mm.ret, heap |-> bh_closest]
         ELSE IF dist < mm.val
         THEN [ret |-> "Ok",
               heap |-> heap_push(heap_pop(bh_closest), Closest(index, dist))]
         ELSE [ret |-> "Ok", heap |-> bh_closest]

\* "Get actual points from indices to points in tree vec"
RECURSIVE assemble(_, _, _)
assemble(t, bh_closest, i) ==
    IF i > Len(bh_closest) THEN [ret |-> "Ok", heap |-> <<>>]
    ELSE IF bh_closest[i].point \notin DOMAIN t
    THEN [ret |-> "Panic", heap |-> <<>>]
    ELSE IF ~t[bh_closest[i].point].is_some
    THEN [ret |-> "NodeMissing", heap |-> <<>>]
    ELSE LET rest == assemble(t, bh_closest, i + 1) IN
         IF rest.ret # "Ok" THEN rest
         ELSE [ret |-> "Ok",
               heap |-> <<Closest(t[bh_closest[i].point].point,
                                  bh_closest[i].distance)>> \o rest.heap]

\* ---------------------------------------------------------------- search
\* Initial locals of find_n_closest
searched_table_init(self) == [l \in 0 .. self.max_levels |-> -1]

\* A bug that keys the visited marker by split dimension instead of level
already_searched_by_dimension(searched_table, node, index) ==
    searched_table[node.dimension] = index

\* "if searched_table[node.level] == index as i64"
already_searched(searched_table, node, index) ==
    searched_table[node.level] = index

\* A bug that walks up without leaving the node
go_up_in_place(s, node) == [s EXCEPT !.child_type = node.child_type]

\* "child_type = node.child_type; index = node.parent; continue"
go_up(s, node) == [s EXCEPT !.child_type = node.child_type, !.index = node.parent]

\* A bug that never finds the other side worth a search
plane_never_closer(plane_distance, max_min) == FALSE

\* "split-plane distance < self.get_max_min(&bh_closest)?"
plane_closer(plane_distance, max_min) == plane_distance < max_min

\* A bug that searches again the side the walk came from
same_subtree(node, child_type) ==
    IF child_type = "LeftChild" THEN node.left_child
    ELSE IF child_type = "RightChild" THEN node.right_child
    ELSE 0

\* "let sub_tree = match child_type { LeftChild => node.right_child, ... }"
other_subtree(node, child_type) ==
    IF child_type = "LeftChild" THEN node.right_child
    ELSE IF child_type = "RightChild" THEN node.left_child
    ELSE 0

\* One iteration of "while let Some(node) = &self.tree[index]" for the locals
\* s = [index, child_type, bh_closest, searched_table, ret]; ret stays
\* "Continue" unless the iteration returns or panics.
loop_body(self, query_point, n, s) ==
    LET node == self.tree[s.index]
        stop(e) == [s EXCEPT !.ret = e]
    IN
    IF node.level \notin DOMAIN s.searched_table THEN stop("Panic")
    ELSE IF already_searched(s.searched_table, node, s.index)
    THEN go_up(s, node)
    ELSE
    LET d == distance(node.point, query_point) IN
    IF d.ret # "Ok" THEN stop(d.ret)
    ELSE
    LET off == offer(s.bh_closest, n, s.index, d.val) IN
    IF off.ret # "Ok" THEN stop(off.ret)
    ELSE
    LET scored == [s EXCEPT !.bh_closest = off.heap,
                            !.searched_table[node.level] = s.index]
    IN
    IF split_plane_panics(node.point, node.dimension)
       \/ split_plane_panics(query_point, node.dimension)
    THEN [scored EXCEPT !.ret = "Panic"]
    ELSE
    LET pd == distance(split_plane(node.point, node.dimension),
                       split_plane(query_point, node.dimension))
        mm == get_max_min(off.heap)
    IN
    IF pd.ret # "Ok" THEN [scored EXCEPT !.ret = pd.ret]
    ELSE IF mm.ret # "Ok" THEN [scored EXCEPT !.ret = mm.ret]
    ELSE IF plane_closer(pd.val, mm.val)
    THEN LET sub_tree == other_subtree(node, s.child_type)
             g == go_down(self.tree, query_point, sub_tree)
         IN IF g.ret = "Ok"
            THEN [scored EXCEPT !.index = g.index, !.child_type = g.child_type]
            ELSE IF g.ret = "Panic" THEN [scored EXCEPT !.ret = "Panic"]
            ELSE scored
    ELSE scored

\* The locals after "let (mut index, mut child_type) = self.go_down(query_point, 1)?"
search_start(self, query_point) ==
    LET g == go_down(self.tree, query_point, 1) IN
    [index |-> g.index, child_type |-> g.child_type, bh_closest |-> <<>>,
     searched_table |-> searched_table_init(self),
     ret |-> IF g.ret = "Ok" THEN "Continue" ELSE g.ret]

\* The loop run to its end, then the result assembly.  The loop is unrolled at
\* most `fuel` times; "Diverges" stands for a loop that is still running then
\* (C9 shows that twice the number of stored nodes is enough).
RECURSIVE search_run(_, _, _, _, _)
search_run(self, query_point, n, s, fuel) ==
    IF s.ret # "Continue" THEN [ret |-> s.ret, heap |-> <<>>]
    ELSE IF s.index \notin DOMAIN self.tree THEN [ret |-> "Panic", heap |-> <<>>]
    ELSE IF ~self.tree[s.index].is_some THEN assemble(self.tree, s.bh_closest, 1)
    ELSE IF fuel = 0 THEN [ret |-> "Diverges", heap |-> <<>>]
    ELSE search_run(self, query_point, n, loop_body(self, query_point, n, s),
                    fuel - 1)

\* KdTree::find_n_closest as a function of the tree and its arguments
find_n_closest(self, query_point, n) ==
    search_run(self, query_point, n, search_start(self, query_point),
               2 * self.last_point)

\* "match self.find_n_closest(query_point, 1)?.pop()"
pop_closest(r) ==
    IF r.ret # "Ok" THEN r
    ELSE IF r.heap = <<>> THEN [ret |-> "BinaryHeapError", heap |-> <<>>]
    ELSE [ret |-> "Ok", heap |-> <<r.heap[heap_max_pos(r.heap)]>>]

\* KdTree::find_closest; the pair (point, distance) is the one entry of heap
find_closest(self, query_point) == pop_closest(find_n_closest(self, query_point, 1))

\* the scan of brute_force over the arena slots from cur_ind on
RECURSIVE brute_scan(_, _, _, _, _)
brute_scan(t, query_point, n, cur_ind, bh_closest) ==
    IF cur_ind \notin DOMAIN t THEN [ret |-> "Ok", heap |-> bh_closest]
    ELSE IF ~t[cur_ind].is_some
    THEN brute_scan(t, query_point, n, cur_ind + 1, bh_closest)
    ELSE LET d == distance(t[cur_ind].point, query_point) IN
         IF d.ret # "Ok" THEN [ret |-> d.ret, heap |-> <<>>]
         ELSE LET off == offer(bh_closest, n, cur_ind, d.val) IN
              IF off.ret # "Ok" THEN [ret |-> off.ret, heap |-> <<>>]
              ELSE brute_scan(t, query_point, n, cur_ind + 1, off.heap)

\* KdTree::brute_force
brute_force(self, query_point, n) ==
    LET scan == brute_scan(self.tree, query_point, n, 0, <<>>) IN
    IF scan.ret # "Ok" THEN scan ELSE assemble(self.tree, scan.heap, 1)

\* ---------------------------------------------------------------- state
VARIABLES
    tree, num_dimensions, max_levels, last_point,    \* the KdTree struct
    pc,              \* "idle" | "loop" (inside find_n_closest's while) | "done"
    op,              \* the public function being run
    query_point, n,  \* its arguments
    index, child_type, bh_closest, searched_table,   \* locals of find_n_closest
    ret, result,     \* the value returned: the Result's tag and the Ok payload
    inserted,        \* history: the points add_point accepted, in call order
    scored,          \* history: arena indices scored by the running search, in order
    iterations       \* history: iterations of the while loop run by the search

kd == <<tree, num_dimensions, max_levels, last_point>>
locals == <<index, child_type, bh_closest, searched_table>>
vars == <<tree, num_dimensions, max_levels, last_point, pc, op, query_point, n,
          index, child_type, bh_closest, searched_table, ret, result, inserted,
          scored, iterations>>

Self == [tree |-> tree, num_dimensions |-> num_dimensions,
         max_levels |-> max_levels, last_point |-> last_point]

\* Points of k coordinates
PointsOfLen(k) == [1 .. k -> Coords]

\* Points of another dimensionality than the tree's: every point with one
\* coordinate less, and the origin with one coordinate more.
BadPoints ==
    PointsOfLen(num_dimensions - 1) \cup {[i \in 1 .. num_dimensions + 1 |-> 0]}

\* Arguments handed to the queries
QueryPoints == PointsOfLen(num_dimensions) \cup BadPoints

\* Arguments handed to add_point
NewPoints ==
    {p \in PointsOfLen(num_dimensions) : \A i \in DOMAIN p : p[i] \in StoredCoords(i)}
    \cup BadPoints

NoLocals ==
    /\ index' = 0
    /\ child_type' = "RootNode"
    /\ bh_closest' = <<>>
    /\ searched_table' = <<>>
    /\ scored' = <<>>
    /\ iterations' = 0

Init ==
    /\ \E dims \in Dimensions, capacity \in Capacities :
         LET t == with_capacity(dims, capacity) IN
         /\ tree = t.tree
         /\ num_dimensions = t.num_dimensions
         /\ max_levels = t.max_levels
         /\ last_point = t.last_point
    /\ pc = "idle"
    /\ op = "none"
    /\ query_point = <<>>
    /\ n = 0
    /\ index = 0
    /\ child_type = "RootNode"
    /\ bh_closest = <<>>
    /\ searched_table = <<>>
    /\ ret = "None"
    /\ result = <<>>
    /\ inserted = <<>>
    /\ scored = <<>>
    /\ iterations = 0

\* tree.add_point(p)
AddPoint ==
    /\ pc = "idle"
    /\ Len(inserted) < MaxPoints
    /\ \E p \in NewPoints :
         LET r == add_point(Self, p) IN
         /\ tree' = r.self.tree
         /\ num_dimensions' = r.self.num_dimensions
         /\ max_levels' = r.self.max_levels
         /\ last_point' = r.self.last_point
         /\ ret' = r.ret
         /\ query_point' = p
         /\ inserted' = IF r.ret = "Ok" THEN Append(inserted, p) ELSE inserted
    /\ pc' = "done"
    /\ op' = "add_point"
    /\ n' = 0
    /\ result' = <<>>
    /\ NoLocals

\* tree.find_n_closest(q, k): the entry up to the first test of the while loop
FindNClosest ==
    /\ pc = "idle"
    /\ \E q \in QueryPoints, k \in 0 .. MaxN :
         LET s == search_start(Self, q) IN
         /\ query_point' = q
         /\ n' = k
         /\ index' = s.index
         /\ child_type' = s.child_type
         /\ bh_closest' = s.bh_closest
         /\ searched_table' = s.searched_table
         /\ IF s.ret = "Continue"
            THEN pc' = "loop" /\ ret' = "None"
            ELSE pc' = "done" /\ ret' = s.ret
    /\ op' = "find_n_closest"
    /\ scored' = <<>>
    /\ iterations' = 0
    /\ result' = <<>>
    /\ UNCHANGED <<kd, inserted>>

\* tree.find_closest(q), from the call to the returned value
FindClosest ==
    /\ pc = "idle"
    /\ \E q \in QueryPoints :
         LET r == find_closest(Self, q) IN
         /\ query_point' = q
         /\ ret' = r.ret
         /\ result' = r.heap
    /\ pc' = "done"
    /\ op' = "find_closest"
    /\ n' = 1
    /\ NoLocals
    /\ UNCHANGED <<kd, inserted>>

\* One iteration of the while loop of find_n_closest
Loop ==
    /\ pc = "loop"
    /\ index \in DOMAIN tree
    /\ tree[index].is_some
    /\ LET s == loop_body(Self, query_point, n,
                          [index |-> index, child_type |-> child_type,
                           bh_closest |-> bh_closest,
                           searched_table |-> searched_table, ret |-> "Continue"])
           \* this iteration computed the node's distance and offered it
           d == distance(tree[index].point, query_point)
           reached == /\ tree[index].level \in DOMAIN searched_table
                      /\ ~already_searched(searched_table, tree[index], index)
                      /\ d.ret = "Ok"
                      /\ offer(bh_closest, n, index, d.val).ret = "Ok"
       IN
       /\ index' = s.index
       /\ child_type' = s.child_type
       /\ bh_closest' = s.bh_closest
       /\ searched_table' = s.searched_table
       /\ scored' = IF reached THEN Append(scored, index) ELSE scored
       /\ iterations' = iterations + 1
       /\ IF s.ret = "Continue"
          THEN pc' = "loop" /\ ret' = "None"
          ELSE pc' = "done" /\ ret' = s.ret
    /\ UNCHANGED <<kd, op, query_point, n, result, inserted>>

\* The loop's exit (tree[index] is None) and the result assembly
Assemble ==
    /\ pc = "loop"
    /\ \/ index \notin DOMAIN tree
       \/ ~tree[index].is_some
    /\ LET r == IF index \notin DOMAIN tree
                THEN [ret |-> "Panic", heap |-> <<>>]
                ELSE assemble(tree, bh_closest, 1)
       IN /\ ret' = r.ret
          /\ result' = r.heap
    /\ pc' = "done"
    /\ UNCHANGED <<kd, op, query_point, n, locals, inserted, scored, iterations>>

\* tree.brute_force(q, k)
BruteForce ==
    /\ pc = "idle"
    /\ \E q \in QueryPoints, k \in 0 .. MaxN :
         LET r == brute_force(Self, q, k) IN
         /\ query_point' = q
         /\ n' = k
         /\ ret' = r.ret
         /\ result' = r.heap
    /\ pc' = "done"
    /\ op' = "brute_force"
    /\ NoLocals
    /\ UNCHANGED <<kd, inserted>>

\* The call returns to its caller: the frame's locals and the returned value
\* are dropped.  A panic does not return.
Return ==
    /\ pc = "done"
    /\ ret # "Panic"
    /\ pc' = "idle"
    /\ op' = "none"
    /\ query_point' = <<>>
    /\ n' = 0
    /\ ret' = "None"
    /\ result' = <<>>
    /\ NoLocals
    /\ UNCHANGED <<kd, inserted>>

Next == AddPoint \/ FindNClosest \/ FindClosest \/ Loop \/ Assemble \/ BruteForce \/ Return

Spec == Init /\ [][Next]_vars

\* ---------------------------------------------------------------- oracles
\* Radicand of the distance between two points of equal length, from the
\* definition of the Euclidean metric (independent of the tree).
Metric(a, b) ==
    LET RECURSIVE acc(_)
        acc(i) == IF i = 0 THEN 0 ELSE acc(i - 1) + (a[i] - b[i]) * (a[i] - b[i])
    IN acc(Len(a))

\* The least distance from q to an accepted point
MinDistance(q) ==
    CHOOSE d \in {Metric(inserted[i], q) : i \in DOMAIN inserted} :
        \A i \in DOMAIN inserted : d <= Metric(inserted[i], q)

\* Number of entries of the returned collection h at distance d
CountAt(h, d) == Cardinality({i \in DOMAIN h : h[i].distance = d})

\* Two returned collections hold the same multiset of distances
SameDistances(h1, h2) ==
    /\ Len(h1) = Len(h2)
    /\ \A i \in DOMAIN h1 : CountAt(h1, h1[i].distance) = CountAt(h2, h1[i].distance)
    /\ \A i \in DOMAIN h2 : CountAt(h1, h2[i].distance) = CountAt(h2, h2[i].distance)

\* Each distance that occurs once in both collections comes with the same point
SameUntiedPoints(h1, h2) ==
    \A i \in DOMAIN h1, j \in DOMAIN h2 :
        (/\ h1[i].distance = h2[j].distance
         /\ CountAt(h1, h1[i].distance) = 1
         /\ CountAt(h2, h2[j].distance) = 1) => h1[i].point = h2[j].point

QueryOps == {"find_closest", "find_n_closest", "brute_force"}
SearchOps == {"find_closest", "find_n_closest"}

\* A query with a point of the tree's dimensionality has returned
GoodQueryDone(o) ==
    /\ pc = "done"
    /\ op = o
    /\ Len(query_point) = num_dimensions

\* ---------------------------------------------------------------- claims
\* C1: after at least one successful add_point, find_closest(q) with q of the
\* tree's dimensionality returns Ok with a distance equal to the minimum of
\* distance(p, q) over all inserted points p, which is also the distance that
\* brute_force(q, 1) returns.
C1_ClosestIsMinimum ==
    (GoodQueryDone("find_closest") /\ inserted # <<>>) =>
        /\ ret = "Ok"
        /\ Len(result) = 1
        /\ result[1].distance = MinDistance(query_point)
        /\ LET b == brute_force(Self, query_point, 1) IN
           /\ b.ret = "Ok"
           /\ Len(b.heap) = 1
           /\ b.heap[1].distance = result[1].distance

\* C1 witness: a root with two children answered a query whose nearest point
\* is neither the query itself, nor the node the descent ends at, nor the
\* root: the search had to go down into the sibling subtree to find it.
C1_Witness ==
    /\ GoodQueryDone("find_closest")
    /\ ret = "Ok"
    /\ Len(inserted) = 3
    /\ tree[1].left_child # 0
    /\ tree[1].right_child # 0
    /\ result[1].distance = MinDistance(query_point)
    /\ result[1].distance > 0
    /\ result[1].point # tree[1].point
    /\ result[1].point # tree[go_down(tree, query_point, 1).index].point

\* C2 (as stated): for 1 <= n <= number of inserted points, find_n_closest(q, n)
\* returns n entries with the same multiset of distances as brute_force(q, n),
\* and for each non-tied distance the same point.
C2_SameAsBruteForce ==
    (GoodQueryDone("find_n_closest") /\ 1 <= n /\ n <= Len(inserted)) =>
        /\ ret = "Ok"
        /\ Len(result) = n
        /\ LET b == brute_force(Self, query_point, n) IN
           /\ b.ret = "Ok"
           /\ SameDistances(result, b.heap)
           /\ SameUntiedPoints(result, b.heap)

\* The arena has the slots 0 and 1 that every operation indexes
HasRootSlot == VecLen(tree) >= 2

\* C3 (as stated, on an arena that has a root slot): find_closest /
\* find_n_closest with a point whose dimensionality differs from the tree's
\* returns DimensionError, whatever the tree holds (no other error, no Ok, no
\* out-of-range access).
C3_QueryDimensionGuard ==
    (/\ pc = "done"
     /\ HasRootSlot
     /\ op \in SearchOps
     /\ Len(query_point) # num_dimensions) => ret = "DimensionError"

\* C4 (as stated, on an arena that has a root slot): every query on a tree
\* into which no point was inserted fails with EmptyTree.
C4_EmptyTreeGuard ==
    (pc = "done" /\ HasRootSlot /\ op \in QueryOps /\ inserted = <<>>)
        => ret = "EmptyTree"

\* The accepted points in lexicographic order, and the tree that results from
\* adding them in that order.  Every order of a given collection of points is
\* a reachable value of `inserted`, so "the answer equals the answer of the
\* tree built in sorted order" for all of them says that any two orders agree.
PointLeq(a, b) ==
    \/ a = b
    \/ \E i \in DOMAIN a :
         /\ a[i] < b[i]
         /\ \A j \in 1 .. i - 1 : a[j] = b[j]

RECURSIVE SortedInsert(_, _)
SortedInsert(sorted, p) ==
    IF sorted = <<>> THEN <<p>>
    ELSE IF PointLeq(p, Head(sorted)) THEN <<p>> \o sorted
    ELSE <<Head(sorted)>> \o SortedInsert(Tail(sorted), p)

RECURSIVE SortPoints(_)
SortPoints(ps) ==
    IF ps = <<>> THEN <<>>
    ELSE SortedInsert(SortPoints(SubSeq(ps, 1, Len(ps) - 1)), ps[Len(ps)])

RECURSIVE BuildTree(_, _)
BuildTree(self, ps) ==
    IF ps = <<>> THEN self
    ELSE BuildTree(add_point(self, Head(ps)).self, Tail(ps))

SortedTree == BuildTree(with_capacity(num_dimensions, 2), SortPoints(inserted))

\* Exactly one point value lies at the least distance from q
UniqueNearest(q) ==
    Cardinality({inserted[i] : i \in {j \in DOMAIN inserted :
                    Metric(inserted[j], q) = MinDistance(q)}}) = 1

\* C5 (as stated): for a fixed final collection of points, find_closest(q)
\* returns the same distance and the same point whatever the order of the
\* add_point calls.
C5_OrderInvariant ==
    (GoodQueryDone("find_closest") /\ inserted # <<>>) =>
        LET r == find_closest(SortedTree, query_point) IN
        /\ ret = r.ret
        /\ result = r.heap

\* C5 (amended): whatever the order of the add_point calls, find_closest(q)
\* returns Ok with the same distance, and the same point whenever a single
\* point value lies at that distance.
C5_OrderInvariantUpToTies ==
    (GoodQueryDone("find_closest") /\ inserted # <<>>) =>
        LET r == find_closest(SortedTree, query_point) IN
        /\ ret = "Ok"
        /\ r.ret = "Ok"
        /\ result[1].distance = r.heap[1].distance
        /\ UniqueNearest(query_point) => result[1].point = r.heap[1].point

\* C5 witness: a tree built in an unsorted order, of another shape than the
\* sorted one, gave the unique nearest point.
C5_Witness ==
    /\ GoodQueryDone("find_closest")
    /\ Len(inserted) = 3
    /\ inserted # SortPoints(inserted)
    /\ UniqueNearest(query_point)
    /\ ret = "Ok"
    /\ result = find_closest(SortedTree, query_point).heap
    /\ \E i \in 1 .. 3 : tree[i].parent # SortedTree.tree[i].parent

\* C6: add_point with a point whose dimensionality differs from the tree's
\* returns DimensionError and leaves tree, its length, last_point and
\* max_levels as they were.
C6_AddPointDimensionGuard ==
    [][(/\ pc = "idle"
        /\ pc' = "done"
        /\ op' = "add_point"
        /\ Len(query_point') # num_dimensions)
       => (/\ ret' = "DimensionError"
           /\ tree' = tree
           /\ VecLen(tree') = VecLen(tree)
           /\ last_point' = last_point
           /\ max_levels' = max_levels
           /\ inserted' = inserted)]_vars

\* C6 witness: a non-empty tree rejected a point of another dimensionality.
C6_Witness ==
    /\ pc = "done"
    /\ op = "add_point"
    /\ Len(query_point) # num_dimensions
    /\ ret = "DimensionError"
    /\ Len(inserted) = 2

\* C7 (as stated): for every initial capacity, the arena length is at least
\* last_point + 1 at all times, it never decreases, and when add_point grows
\* the arena the new length is twice the previous length.
C7_ArenaCapacity ==
    /\ [](VecLen(tree) >= last_point + 1)
    /\ [][/\ VecLen(tree') >= VecLen(tree)
          /\ VecLen(tree') # VecLen(tree) => VecLen(tree') = 2 * VecLen(tree)]_vars

\* Indices of the arena slots that hold a node
Stored == {i \in DOMAIN tree : tree[i].is_some}

\* C8: the arena is a well-formed tree: slot 0 holds no node; once a point was
\* inserted slot 1 holds the root with role RootNode and parent 0; every other
\* stored node has role LeftChild or RightChild and its parent slot holds a
\* node whose matching child link is the node's own index; every non-zero
\* child link points to a stored node whose parent is the linking node.
C8_WellFormedArena ==
    LET stored == Stored IN
    /\ 0 \notin stored
    /\ inserted # <<>> =>
         /\ 1 \in stored
         /\ tree[1].child_type = "RootNode"
         /\ tree[1].parent = 0
    /\ Cardinality(stored) = Len(inserted)
    /\ \A i \in stored \ {1} :
         LET node == tree[i] IN
         /\ node.child_type \in {"LeftChild", "RightChild"}
         /\ node.parent \in stored
         /\ node.child_type = "LeftChild" => tree[node.parent].left_child = i
         /\ node.child_type = "RightChild" => tree[node.parent].right_child = i
    /\ \A i \in stored :
         LET node == tree[i] IN
         /\ node.left_child # 0 =>
              /\ node.left_child \in stored
              /\ tree[node.left_child].parent = i
              /\ tree[node.left_child].child_type = "LeftChild"
         /\ node.right_child # 0 =>
              /\ node.right_child \in stored
              /\ tree[node.right_child].parent = i
              /\ tree[node.right_child].child_type = "RightChild"

\* C8 witness: a root with a left and a right child.
C8_Witness ==
    /\ Len(inserted) = 3
    /\ tree[1].left_child # 0
    /\ tree[1].right_child # 0
    /\ tree[tree[1].left_child].parent = 1
    /\ tree[tree[1].right_child].parent = 1

\* A search with a point of the tree's dimensionality is inside its loop
InLoop == pc = "loop" /\ Len(query_point) = num_dimensions

\* The loop was left by the walk up from the root to slot 0
EndedAtSentinel ==
    /\ pc = "done"
    /\ ret = "Ok"
    /\ index = 0
    /\ child_type = "RootNode"

\* C9 (as stated): for every tree and every query point of the tree's
\* dimensionality the loop of find_n_closest ends, and only by the walk up
\* from the root to the sentinel index 0.
C9_LoopEndsAtSentinel ==
    (/\ pc = "done"
     /\ op = "find_n_closest"
     /\ Len(query_point) = num_dimensions
     /\ inserted # <<>>) => EndedAtSentinel

\* C9 (amended): for every n >= 1, every tree and every query point of the
\* tree's dimensionality, the loop of find_n_closest ends, and only by the
\* walk up from the root to the sentinel index 0.  The loop ends because it
\* runs at most two iterations for each stored node (one that scores the node,
\* one that walks up from it) and every iteration but the last leaves it
\* running without an error.
C9_LoopTerminates ==
    /\ (InLoop /\ n >= 1) =>
         /\ iterations <= 2 * Cardinality(Stored)
         /\ ret = "None"
    /\ (/\ pc = "done"
        /\ op = "find_n_closest"
        /\ n >= 1
        /\ Len(query_point) = num_dimensions
        /\ inserted # <<>>) =>
         /\ EndedAtSentinel
         /\ iterations <= 2 * Cardinality(Stored)

\* C9 witness: a search with n >= 1 left the loop at the sentinel after it
\* went down into a sibling subtree and came back up.
C9_Witness ==
    /\ EndedAtSentinel
    /\ op = "find_n_closest"
    /\ n >= 1
    /\ Len(query_point) = num_dimensions
    /\ Len(scored) = 3
    /\ iterations = 6
    /\ \E i \in 1 .. 2 : tree[scored[i]].level < tree[scored[i + 1]].level

\* C10: during one find_n_closest call no node is scored twice: when the loop
\* reaches a node that was scored, the marker of the node's level still holds
\* the node's index (so the node is skipped); the heap never holds an arena
\* node twice.
C10_NoNodeScoredTwice ==
    /\ \A i, j \in DOMAIN scored : scored[i] = scored[j] => i = j
    /\ \A i, j \in DOMAIN bh_closest :
         bh_closest[i].point = bh_closest[j].point => i = j
    /\ (/\ pc = "loop"
        /\ \E i \in DOMAIN scored : scored[i] = index)
       => searched_table[tree[index].level] = index

\* C10 witness: the loop is back at the scored root after it scored a node in
\* each of the root's subtrees, so another node wrote a marker after the root's.
C10_Witness ==
    /\ pc = "loop"
    /\ index = 1
    /\ Len(scored) = 3
    /\ \E i \in DOMAIN scored : scored[i] = 1
    /\ tree[1].left_child # 0
    /\ tree[1].right_child # 0
    /\ searched_table[0] = 1

\* The greatest level of a stored node
DeepestLevel ==
    CHOOSE l \in {tree[i].level : i \in Stored} :
        \A i \in Stored : tree[i].level <= l

\* C11: the root has dimension 0 and level 0; every other stored node has
\* dimension (parent.dimension + 1) mod num_dimensions and level
\* parent.level + 1; max_levels is the greatest level of a stored node (0 in
\* an empty tree); the table of a search has max_levels + 1 entries and the
\* level of the node the loop stands on is one of its indices, so that no
\* search of a tree with a root slot panics on a query point of the tree's
\* dimensionality.
C11_LevelsAndDimensions ==
    /\ inserted # <<>> =>
         /\ tree[1].dimension = 0
         /\ tree[1].level = 0
         /\ max_levels = DeepestLevel
    /\ inserted = <<>> => max_levels = 0
    /\ \A i \in Stored \ {1} :
         LET node == tree[i]
             parent == tree[node.parent]
         IN /\ node.dimension = (parent.dimension + 1) % num_dimensions
            /\ node.level = parent.level + 1
    /\ pc = "loop" =>
         /\ DOMAIN searched_table = 0 .. max_levels
         /\ index \in Stored => tree[index].level \in DOMAIN searched_table
    /\ (/\ pc = "done"
        /\ op \in SearchOps
        /\ HasRootSlot
        /\ Len(query_point) = num_dimensions) => ret \notin {"Panic", "Diverges"}

\* C11 witness: the loop of a search of a 2-dimensional tree stands on a node
\* at level 2, whose split dimension has wrapped around to 0 and whose level
\* is the last index of the table.
C11_Witness ==
    /\ pc = "loop"
    /\ num_dimensions = 2
    /\ index \in Stored
    /\ tree[index].level = 2
    /\ tree[index].dimension = 0
    /\ tree[tree[index].parent].dimension = 1
    /\ max_levels = 2
    /\ Len(scored) >= 1

\* A node and the nodes above it, by the parent links
RECURSIVE AncestorsOrSelf(_)
AncestorsOrSelf(i) ==
    IF i = 0 THEN {} ELSE {i} \cup AncestorsOrSelf(tree[i].parent)

\* The stored nodes of the subtree under the link r (none for the link 0)
Subtree(r) == IF r = 0 THEN {} ELSE {m \in Stored : r \in AncestorsOrSelf(m)}

\* C12: for every stored node N with split dimension d, every point of N's
\* left subtree has a coordinate along d strictly smaller than N's and every
\* point of N's right subtree one greater than or equal to N's; the descent
\* for a point equal to a stored point passes through that point's node, both
\* as go_down computes it on the tree and as a search performs it.
C12_KdOrdering ==
    /\ \A i \in Stored :
         LET node == tree[i]
             d == node.dimension + 1
         IN /\ \A m \in Subtree(node.left_child) :
                 tree[m].point[d] < node.point[d]
            /\ \A m \in Subtree(node.right_child) :
                 tree[m].point[d] >= node.point[d]
    /\ \A i \in Stored :
         LET g == go_down(tree, tree[i].point, 1)
         IN /\ g.ret = "Ok"
            /\ i \in AncestorsOrSelf(g.index)
    /\ (pc = "loop" /\ iterations = 0) =>
         \A i \in Stored :
             tree[i].point = query_point => i \in AncestorsOrSelf(index)

\* C12 witness: a search has just descended for a point stored twice; the
\* root has a left child, and the second copy sits in the right subtree of
\* the first, which is not the root.
C12_Witness ==
    /\ pc = "loop"
    /\ iterations = 0
    /\ Len(inserted) = MaxPoints
    /\ tree[1].left_child # 0
    /\ \E i \in Stored \ {1} :
         /\ tree[i].point = query_point
         /\ tree[i].right_child # 0
         /\ tree[tree[i].right_child].point = query_point
         /\ index = tree[i].right_child

====
